---- MODULE Spec2Model ----
(***************************************************************************)
(* Draughts back-end (progetto_pa): the session orchestrator               *)
(* moveService.executeMove and the stores it reads and writes.             *)
(*                                                                         *)
(* executeMove is an async function: between two awaits its code runs      *)
(* without interruption, and at every await another request handler may    *)
(* run.  The model has one action per await of executeMove; each action    *)
(* performs the awaited store operation and the synchronous code that      *)
(* follows it up to the next await.  Nothing in executeMove takes a lock   *)
(* or opens a transaction, so the actions of different calls interleave    *)
(* freely.                                                                 *)
(*                                                                         *)
(* Units: time in minutes, tokens in hundredths (MOVE_COST 0.02 = 2),      *)
(* score in halves (timeout penalty 0.5 = 1, a win 1 = 2).                 *)
(***************************************************************************)
EXTENDS Integers, Sequences, FiniteSets, TLC

\* ------------------------------------------------------------- bounds
\* submitMove requests issued in one behaviour
MaxCalls == 2
\* last minute the clock reaches
MaxTime == 2
\* how many of the legal moves, in list order, the AI's choice ranges over
MaxAIChoices == 2

\* ------------------------------------------------- program constants
TIMEOUT_MINUTES == 1
MOVE_COST == 2
TIMEOUT_PENALTY == 1
\* winner.score += 1, in halves
WIN_SCORE == 2
\* null in a column (opponent_id, winner_id, user_id)
NULL == 0
\* winner_id written when the AI wins
AI_WINNER == -1

\* request handlers that can be in flight at once
CallIds == {1, 2}
PlayerIds == {1, 2, 3}
\* rows of table Game; GameIdInputs also holds an id with no row
GameIds == {1}
GameIdInputs == {1, 2}

\* ------------------------------------------------------------ positions
\* A position string such as "B6" is the pair <<"B", 6>>: its first
\* character and the digit parseInt reads at index 1.
Letters == <<"A", "B", "C", "D", "E", "F", "G", "H">>

\* position.charCodeAt(0) - 'A'.charCodeAt(0)
CharOffset(ch) == (CHOOSE i \in 1..Len(Letters) : Letters[i] = ch) - 1

convertPosition(position) ==
    LET file == CharOffset(position[1])
        rank == 8 - position[2]
    IN  rank * 8 + file

\* a conversion back that counts the ranks from the top
convertPositionBackFromTop(index) ==
    <<Letters[(index % 8) + 1], 1 + (index \div 8)>>

convertPositionBack(index) ==
    LET file == Letters[(index % 8) + 1]
        rank == 8 - (index \div 8)
    IN  <<file, rank>>

\* ------------------------------------------------------------ the board
Squares == 0..63
Row(s) == s \div 8
Col(s) == s % 8
\* playable squares: the ones createGame's initialBoard puts pieces on
IsDark(s) == (Row(s) + Col(s)) % 2 = 1

\* createGame's initialBoard: "B" on the dark squares of rows 0..2, "W" on
\* those of rows 5..7, null elsewhere.
initialBoard ==
    [s \in Squares |->
        IF IsDark(s) /\ Row(s) <= 2 THEN "B"
        ELSE IF IsDark(s) /\ Row(s) >= 5 THEN "W"
        ELSE "-"]

\* ------------------------------------------------- rapid-draughts engine
\* Draughts.setup(): the starting position of English draughts, DARK to
\* move.  Engine pieces are "d"/"l" (men) and "D"/"L" (kings).
EngineStart ==
    [s \in Squares |->
        IF IsDark(s) /\ Row(s) <= 2 THEN "d"
        ELSE IF IsDark(s) /\ Row(s) >= 5 THEN "l"
        ELSE "-"]

Other(side) == IF side = "dark" THEN "light" ELSE "dark"
PiecesOf(side) == IF side = "dark" THEN {"d", "D"} ELSE {"l", "L"}
IsKing(p) == p \in {"D", "L"}
\* row directions a piece may move in: men forward only, kings both ways
Dirs(p) == IF IsKing(p) THEN {-1, 1} ELSE IF p = "d" THEN {1} ELSE {-1}

Min(a, b) == IF a < b THEN a ELSE b

OnBoard(r, c) == r \in 0..7 /\ c \in 0..7
Sq(r, c) == r * 8 + c

\* non-capturing moves of `side`: one diagonal step onto an empty square
StepMoves(b, side) ==
    { <<o, Sq(Row(o) + dr, Col(o) + dc)>> :
        <<o, dr, dc>> \in
          { x \in Squares \X {-1, 1} \X {-1, 1} :
              /\ b[x[1]] \in PiecesOf(side)
              /\ x[2] \in Dirs(b[x[1]])
              /\ OnBoard(Row(x[1]) + x[2], Col(x[1]) + x[3])
              /\ b[Sq(Row(x[1]) + x[2], Col(x[1]) + x[3])] = "-" } }

\* capturing moves of `side`: a jump over an adjacent enemy piece onto the
\* empty square behind it
JumpMoves(b, side) ==
    { <<o, Sq(Row(o) + 2 * dr, Col(o) + 2 * dc)>> :
        <<o, dr, dc>> \in
          { x \in Squares \X {-1, 1} \X {-1, 1} :
              /\ b[x[1]] \in PiecesOf(side)
              /\ x[2] \in Dirs(b[x[1]])
              /\ OnBoard(Row(x[1]) + 2 * x[2], Col(x[1]) + 2 * x[3])
              /\ b[Sq(Row(x[1]) + x[2], Col(x[1]) + x[3])] \in PiecesOf(Other(side))
              /\ b[Sq(Row(x[1]) + 2 * x[2], Col(x[1]) + 2 * x[3])] = "-" } }

\* draughts.moves as a set: captures are mandatory
LegalMoveSet(b, side) ==
    IF JumpMoves(b, side) # {} THEN JumpMoves(b, side) ELSE StepMoves(b, side)

\* a set of <<origin, destination>> pairs as a list in ascending order
RECURSIVE SortMoves(_)
SortMoves(S) ==
    IF S = {} THEN <<>>
    ELSE LET m == CHOOSE x \in S :
                    \A y \in S : x[1] < y[1] \/ (x[1] = y[1] /\ x[2] <= y[2])
         IN  <<m>> \o SortMoves(S \ {m})

\* draughts.moves: the legal moves of the engine's position
EngineMoves(d) == SortMoves(LegalMoveSet(d.board, d.player))

\* a move that leaves a man a man on every rank
PromoteNever(p, dest) == p

Promote(p, dest) ==
    IF p = "d" /\ Row(dest) = 7 THEN "D"
    ELSE IF p = "l" /\ Row(dest) = 0 THEN "L"
    ELSE p

\* a move that leaves the jumped piece on the board
EngineMoveKeepsJumped(d, m) ==
    [board |-> [s \in Squares |->
                  IF s = m[2] THEN Promote(d.board[m[1]], m[2])
                  ELSE IF s = m[1] THEN "-"
                  ELSE d.board[s]],
     player |-> Other(d.player)]

\* draughts.move(m): relocate the piece, remove a jumped piece, promote,
\* pass the turn
EngineMove(d, m) ==
    LET o == m[1]
        t == m[2]
        jumped == IF Row(t) - Row(o) \in {-2, 2}
                  THEN {Sq((Row(o) + Row(t)) \div 2, (Col(o) + Col(t)) \div 2)}
                  ELSE {}
    IN  [board |-> [s \in Squares |->
                      IF s = t THEN Promote(d.board[o], t)
                      ELSE IF s = o \/ s \in jumped THEN "-"
                      ELSE d.board[s]],
         player |-> Other(d.player)]

\* The library counts the moves made without capture or advance and
\* reports a draw at its limit; a position at that limit carries the field
\* `drawn`.
Drawn(d) == "drawn" \in DOMAIN d /\ d.drawn

\* draughts.status: a draw at the limit, else the side to move loses when
\* it has no legal move
EngineStatus(d) ==
    IF Drawn(d) THEN "DRAW"
    ELSE IF LegalMoveSet(d.board, d.player) # {} THEN "PLAYING"
    ELSE IF d.player = "dark" THEN "LIGHT_WON" ELSE "DARK_WON"


\* --------------------------------------------------------------- state
VARIABLES
    \* table Game: game_id -> row
    games,
    \* table Player: player_id -> [tokens, score]
    players,
    \* table Move, in creation order (createdAt ascending)
    moves,
    \* the wall clock, in minutes
    now,
    \* the executeMove calls: call id -> position and local variables
    calls,
    \* number of executeMove calls issued so far
    started,
    \* the executeMove call that ended last: what its caller got (result) and
    \* the statement that ended it (exit)
    returned

vars == <<games, players, moves, now, calls, started, returned>>

\* tokens every player holds at the start
InitTokens == 5

\* submitted (from, to) pairs: the two moves of the dark man on B6 and a
\* move of a light man
MoveInputs ==
    { << <<"B", 6>>, <<"A", 5>> >>,
      << <<"B", 6>>, <<"C", 5>> >>,
      << <<"A", 3>>, <<"B", 4>> >> }

\* the requests clients send, as <<gameId, playerId, <<from, to>>>>: every
\* move input by players 1 and 2, and one request each by player 3 and for
\* a game id that has no row
Requests ==
    { r \in GameIdInputs \X PlayerIds \X MoveInputs :
        \/ r[1] = 1 /\ r[2] \in {1, 2}
        \/ r[1] = 1 /\ r[2] = 3 /\ r[3][1] = <<"B", 6>> /\ r[3][2] = <<"A", 5>>
        \/ r[1] = 2 /\ r[2] = 1 /\ r[3][1] = <<"B", 6>> /\ r[3][2] = <<"A", 5>> }

NoGame == [status |-> "", board |-> initialBoard, total_moves |-> 0, winner_id |-> NULL]

IdleCall ==
    [pc |-> "idle", gameId |-> 0, from |-> <<>>, to |-> <<>>, playerId |-> 0,
     tokens |-> 0, score |-> 0, game |-> NoGame, savedBoard |-> initialBoard,
     draughts |-> [board |-> EngineStart, player |-> "dark"],
     moveToMake |-> <<>>, moveNumber |-> 0,
     lastAIMove |-> 0, aiMove |-> <<>>, winnerId |-> NULL,
     effects |-> {}]

\* the value of `returned` when call c ends
Return(c, result, exit) == [call |-> c, result |-> result, exit |-> exit]

InFlight(c) == calls[c].pc # "idle"

\* the row createGame stores: a PvP game of players 1 and 2, or a PvE game
\* of player 1 against the AI
CreatedGame(type) ==
    [player_id |-> 1,
     opponent_id |-> IF type = "pvp" THEN 2 ELSE NULL,
     type |-> type,
     ai_difficulty |-> IF type = "pvp" THEN "absent" ELSE "hard",
     status |-> "ongoing",
     board |-> initialBoard,
     total_moves |-> 0,
     winner_id |-> NULL]

\* the third row of the games seeder: a PvE game of player 2 that is
\* already timed out
SeededTimedOutGame ==
    [player_id |-> 2,
     opponent_id |-> NULL,
     type |-> "pve",
     ai_difficulty |-> "hard",
     status |-> "timed out",
     board |-> initialBoard,
     total_moves |-> 0,
     winner_id |-> 2]

\* There is one game: a created one, PvP or PvE, or the seeded game that
\* has ended.  Player 3 takes part in no game.
Init ==
    /\ \E row \in {CreatedGame("pvp"), CreatedGame("pve"), SeededTimedOutGame} :
          games = [g \in GameIds |-> row]
    /\ players = [p \in PlayerIds |-> [tokens |-> InitTokens, score |-> 0]]
    /\ moves = <<>>
    /\ now = 0
    /\ calls = [c \in CallIds |-> IdleCall]
    /\ started = 0
    /\ returned = Return(0, "", "")

\* Move.findOne({where: {game_id, user_id}, order: [['createdAt','DESC']]}):
\* the index in `moves` of the newest matching row, 0 when there is none
FindLastMove(gameId, userId) ==
    LET hits == { i \in 1..Len(moves) :
                    moves[i].game_id = gameId /\ moves[i].user_id = userId }
    IN  IF hits = {} THEN 0 ELSE CHOOSE i \in hits : \A j \in hits : j <= i

\* validMoves.find(move => move.origin === origin && move.destination === destination)
FindMove(validMoves, origin, destination) ==
    LET hits == { i \in 1..Len(validMoves) :
                    validMoves[i][1] = origin /\ validMoves[i][2] = destination }
    IN  IF hits = {} THEN <<>>
        ELSE validMoves[CHOOSE i \in hits : \A j \in hits : i <= j]

\* savedBoard[origin]?.piece?.king ? 'king' : 'single'
PieceType(savedBoard, origin) ==
    IF origin \in DOMAIN savedBoard /\ savedBoard[origin] \in {"D", "L"}
    THEN "king" ELSE "single"

\* ------------------------------------------------------------- actions
\* call c goes on to its next await with the locals of `call`
Goto(c, call) ==
    /\ calls' = [calls EXCEPT ![c] = call]
    /\ UNCHANGED returned

\* call c ends (returns or throws): its locals are gone
End(c, result, exit) ==
    /\ calls' = [calls EXCEPT ![c] = IdleCall]
    /\ returned' = Return(c, result, exit)

\* A client sends POST /new-move; the controller calls executeMove.
Submit(c, g, f, t, p) ==
    /\ ~InFlight(c)
    /\ started < MaxCalls
    \* call ids are names only: the second is used while the first is busy
    /\ c = 2 => InFlight(1)
    /\ started' = started + 1
    /\ Goto(c, [IdleCall EXCEPT !.pc = "findPlayer", !.gameId = g,
                                !.from = f, !.to = t, !.playerId = p])
    /\ UNCHANGED <<games, players, moves, now>>

\* await Player.findByPk(playerId)
FindPlayer(c) ==
    LET call == calls[c] IN
    /\ call.pc = "findPlayer"
    /\ IF call.playerId \notin DOMAIN players
       THEN End(c, "Error", "playerNotFound")
       ELSE Goto(c, [call EXCEPT !.pc = "findGame",
                                 !.tokens = players[call.playerId].tokens])
    /\ UNCHANGED <<games, players, moves, now, started>>

\* Game.findByPk with the participant check placed before the status check
FindGameParticipantFirst(c) ==
    LET call == calls[c] IN
    /\ call.pc = "findGame"
    /\ IF call.gameId \notin DOMAIN games
       THEN End(c, "GAME_NOT_FOUND", "gameNotFound")
       ELSE IF /\ games[call.gameId].player_id # call.playerId
               /\ games[call.gameId].opponent_id # call.playerId
       THEN End(c, "UNAUTHORIZED", "notParticipant")
       ELSE IF games[call.gameId].status # "ongoing"
       THEN End(c, "GAME_NOT_IN_PROGRESS", "notInProgress")
       ELSE Goto(c, [call EXCEPT !.pc = "savePlayer",
                                 !.game = [status |-> games[call.gameId].status,
                                           board |-> games[call.gameId].board,
                                           total_moves |-> games[call.gameId].total_moves,
                                           winner_id |-> games[call.gameId].winner_id],
                                 !.savedBoard = games[call.gameId].board,
                                 !.tokens = call.tokens - MOVE_COST])
    /\ UNCHANGED <<games, players, moves, now, started>>

\* Game.findByPk without the participant check
FindGameAnyCaller(c) ==
    LET call == calls[c] IN
    /\ call.pc = "findGame"
    /\ IF call.gameId \notin DOMAIN games
       THEN End(c, "GAME_NOT_FOUND", "gameNotFound")
       ELSE IF games[call.gameId].status # "ongoing"
       THEN End(c, "GAME_NOT_IN_PROGRESS", "notInProgress")
       ELSE Goto(c, [call EXCEPT !.pc = "savePlayer",
                                 !.game = [status |-> games[call.gameId].status,
                                           board |-> games[call.gameId].board,
                                           total_moves |-> games[call.gameId].total_moves,
                                           winner_id |-> games[call.gameId].winner_id],
                                 !.savedBoard = games[call.gameId].board,
                                 !.tokens = call.tokens - MOVE_COST])
    /\ UNCHANGED <<games, players, moves, now, started>>

\* await Game.findByPk(gameId); the status and participant checks; the
\* debit of the local player instance
FindGame(c) ==
    LET call == calls[c] IN
    /\ call.pc = "findGame"
    /\ IF call.gameId \notin DOMAIN games
       THEN End(c, "GAME_NOT_FOUND", "gameNotFound")
       ELSE IF games[call.gameId].status # "ongoing"
       THEN End(c, "GAME_NOT_IN_PROGRESS", "notInProgress")
       ELSE IF /\ games[call.gameId].player_id # call.playerId
               /\ games[call.gameId].opponent_id # call.playerId
       THEN End(c, "UNAUTHORIZED", "notParticipant")
       ELSE Goto(c, [call EXCEPT !.pc = "savePlayer",
                                 !.game = [status |-> games[call.gameId].status,
                                           board |-> games[call.gameId].board,
                                           total_moves |-> games[call.gameId].total_moves,
                                           winner_id |-> games[call.gameId].winner_id],
                                 !.savedBoard = games[call.gameId].board,
                                 !.tokens = call.tokens - MOVE_COST])
    /\ UNCHANGED <<games, players, moves, now, started>>

\* Draughts.setup(): a new game at the starting position, DARK to move.
\* The forEach that follows it in executeMove writes the saved squares into
\* the array that the `board` getter returned; the engine keeps its
\* position in bitboards and derives that array from them, so
\* draughts.moves, draughts.move and draughts.status work on the starting
\* position, and draughts.board after a move is the array derived from the
\* engine's new position.
Setup == [board |-> EngineStart, player |-> "dark"]

\* draughts.moves right after the set-up
SetupMoves == EngineMoves(Setup)

\* await player.save(), then the synchronous code up to Move.findOne: the
\* board is parsed, the engine is set up and the submitted move is looked
\* up among draughts.moves
SavePlayer(c) ==
    LET call == calls[c]
        origin == convertPosition(call.from)
        destination == convertPosition(call.to)
        moveToMake == FindMove(SetupMoves, origin, destination)
    IN
    /\ call.pc = "savePlayer"
    /\ players' = [players EXCEPT ![call.playerId].tokens = call.tokens]
    /\ IF moveToMake = <<>>
       THEN End(c, "NOT_VALID_MOVE", "notLegal")
       ELSE Goto(c, [call EXCEPT !.pc = "findLastMove",
                                 !.draughts = Setup,
                                 !.moveToMake = moveToMake,
                                 !.effects = @ \cup {"tokens"}])
    /\ UNCHANGED <<games, moves, now, started>>

\* the timeout's winner with the branches of the inner conditional
\* exchanged: in PvP it names the actor
TimeoutWinnerExchanged(game, playerId) ==
    IF game.opponent_id = NULL THEN AI_WINNER
    ELSE IF game.player_id = playerId THEN game.player_id ELSE game.opponent_id

\* game.winner_id on a timeout
TimeoutWinner(game, playerId) ==
    IF game.opponent_id = NULL THEN AI_WINNER
    ELSE IF game.player_id = playerId THEN game.opponent_id ELSE game.player_id

\* the timeout measured from the newest Move row of anybody
TimedOutSinceAnyMove(lastMove, currentTime) ==
    moves # <<>> /\ currentTime - moves[Len(moves)].createdAt > TIMEOUT_MINUTES

\* timeDifference > TIMEOUT_MINUTES
TimedOut(lastMove, currentTime) ==
    lastMove # 0 /\ currentTime - moves[lastMove].createdAt > TIMEOUT_MINUTES

\* the duplicate check comparing only the destination with both columns
SameAsLastMoveDestinationOnly(lastMove, from, to) ==
    /\ lastMove # 0
    /\ moves[lastMove].from_position = to
    /\ moves[lastMove].to_position = to

\* lastMove && lastMove.from_position === from && lastMove.to_position === to
SameAsLastMove(lastMove, from, to) ==
    /\ lastMove # 0
    /\ moves[lastMove].from_position = from
    /\ moves[lastMove].to_position = to

\* await Move.findOne(...) for the caller's last move, the timeout check,
\* the duplicate check and the player's move on the engine
FindLast(c) ==
    LET call == calls[c]
        lastMove == FindLastMove(call.gameId, call.playerId)
        moved == EngineMove(call.draughts, call.moveToMake)
    IN
    /\ call.pc = "findLastMove"
    /\ IF TimedOut(lastMove, now)
       THEN Goto(c, [call EXCEPT !.pc = "saveTimeout",
                                 !.game.status = "timed out",
                                 !.game.winner_id =
                                     TimeoutWinner(games[call.gameId], call.playerId)])
       ELSE IF SameAsLastMove(lastMove, call.from, call.to)
       THEN End(c, "NOT_VALID_MOVE", "sameAsLast")
       ELSE Goto(c, [call EXCEPT !.pc = "saveGame",
                                 !.draughts = moved,
                                 !.game.board = moved.board,
                                 !.game.total_moves = @ + 1])
    /\ UNCHANGED <<games, players, moves, now, started>>

\* the save on the timeout path writing the winner and not the status
SaveTimeoutWinnerOnly(c) ==
    LET call == calls[c] IN
    /\ call.pc = "saveTimeout"
    /\ games' = [games EXCEPT ![call.gameId].winner_id = call.game.winner_id]
    /\ Goto(c, [call EXCEPT !.pc = "findPenalty", !.effects = @ \cup {"status"}])
    /\ UNCHANGED <<players, moves, now, started>>

\* await game.save() on the timeout path: status, ended_at and winner_id
\* are the changed fields
SaveTimeout(c) ==
    LET call == calls[c] IN
    /\ call.pc = "saveTimeout"
    /\ games' = [games EXCEPT ![call.gameId].status = call.game.status,
                              ![call.gameId].winner_id = call.game.winner_id]
    /\ Goto(c, [call EXCEPT !.pc = "findPenalty", !.effects = @ \cup {"status"}])
    /\ UNCHANGED <<players, moves, now, started>>

\* await Player.findByPk(playerId) on the timeout path; player.score -= 0.5
FindPenalty(c) ==
    LET call == calls[c] IN
    /\ call.pc = "findPenalty"
    /\ IF call.playerId \notin DOMAIN players
       THEN End(c, "timeout", "timeout")
       ELSE Goto(c, [call EXCEPT !.pc = "savePenalty",
                                 !.score = players[call.playerId].score - TIMEOUT_PENALTY])
    /\ UNCHANGED <<games, players, moves, now, started>>

\* await player.save() on the timeout path, and the timeout result
SavePenalty(c) ==
    LET call == calls[c] IN
    /\ call.pc = "savePenalty"
    /\ players' = [players EXCEPT ![call.playerId].score = call.score]
    /\ End(c, "timeout", "timeout")
    /\ UNCHANGED <<games, moves, now, started>>

\* a save of the player's move that writes board and total_moves to every
\* row of table Game
SaveGameEverySession(c) ==
    LET call == calls[c] IN
    /\ call.pc = "saveGame"
    /\ games' = [g \in DOMAIN games |->
                   [games[g] EXCEPT !.board = call.game.board,
                                    !.total_moves = call.game.total_moves]]
    /\ Goto(c, [call EXCEPT !.pc = "createMove",
                            !.moveNumber = call.game.total_moves,
                            !.effects = @ \cup {"game"}])
    /\ UNCHANGED <<players, moves, now, started>>

\* await game.save() after the player's move: board and total_moves are
\* the changed fields; moveNumber = game.total_moves
SaveGame(c) ==
    LET call == calls[c] IN
    /\ call.pc = "saveGame"
    /\ games' = [games EXCEPT ![call.gameId].board = call.game.board,
                              ![call.gameId].total_moves = call.game.total_moves]
    /\ Goto(c, [call EXCEPT !.pc = "createMove",
                            !.moveNumber = call.game.total_moves,
                            !.effects = @ \cup {"game"}])
    /\ UNCHANGED <<players, moves, now, started>>

\* the game-over test without DRAW in its list
GameIsOverWonOnly(d) == EngineStatus(d) \in {"LIGHT_WON", "DARK_WON"}

\* draughts.status is LIGHT_WON, DARK_WON or DRAW
GameIsOver(d) == EngineStatus(d) \in {"LIGHT_WON", "DARK_WON", "DRAW"}

\* await Move.create(...) for the player's move, then the game-over check
\* and the branch on the game type
CreateMove(c) ==
    LET call == calls[c]
        origin == convertPosition(call.from)
    IN
    /\ call.pc = "createMove"
    /\ moves' = Append(moves,
                  [move_number |-> call.moveNumber,
                   board |-> call.draughts.board,
                   from_position |-> call.from,
                   to_position |-> call.to,
                   piece_type |-> PieceType(call.savedBoard, origin),
                   game_id |-> call.gameId,
                   user_id |-> call.playerId,
                   createdAt |-> now])
    /\ IF GameIsOver(call.draughts)
       THEN Goto(c, [call EXCEPT !.pc = "gameOver", !.effects = @ \cup {"move"}])
       ELSE IF games[call.gameId].type = "pve"
       THEN Goto(c, [call EXCEPT !.pc = "findLastAIMove", !.effects = @ \cup {"move"}])
       ELSE End(c, "OK", "moved")
    /\ UNCHANGED <<games, players, now, started>>

\* await Move.findOne(...) for the last move of the AI (user_id null)
FindLastAI(c) ==
    LET call == calls[c] IN
    /\ call.pc = "findLastAIMove"
    /\ Goto(c, [call EXCEPT !.pc = "chooseAIMove",
                            !.lastAIMove = FindLastMove(call.gameId, NULL)])
    /\ UNCHANGED <<games, players, moves, now, started>>

\* a selector that offers the moves of the side that is not to move
chooseAIMoveOfOtherSide(d, difficulty) ==
    LET validMoves == EngineMoves([d EXCEPT !.player = Other(d.player)]) IN
    IF Len(validMoves) = 0 THEN {<<>>}
    ELSE { validMoves[i] : i \in 1..Min(Len(validMoves), MaxAIChoices) }

\* a selector that knows the alpha-beta computer only
chooseAIMoveHardOnly(d, difficulty) ==
    LET validMoves == EngineMoves(d) IN
    IF Len(validMoves) = 0 THEN {<<>>}
    ELSE IF difficulty = "hard"
    THEN { validMoves[i] : i \in 1..Min(Len(validMoves), MaxAIChoices) }
    ELSE {<<>>}

\* chooseAIMove(draughts, difficulty): the values it can return, <<>> for
\* null.  The random computer returns any legal move; the alpha-beta
\* computer returns the legal move its search prefers, which the model
\* leaves open.
chooseAIMove(d, difficulty) ==
    LET validMoves == EngineMoves(d) IN
    IF Len(validMoves) = 0 THEN {<<>>}
    ELSE IF difficulty \in {"easy", "hard"}
    THEN { validMoves[i] : i \in 1..Min(Len(validMoves), MaxAIChoices) }
    ELSE {<<>>}

\* the move the AI plays: the chosen one, or, when it repeats the AI's last
\* recorded move, the first other legal move (null when there is none)
AvoidRepeat(d, lastAIMove, aiMove) ==
    IF /\ lastAIMove # 0
       /\ aiMove # <<>>
       /\ aiMove[1] = convertPosition(moves[lastAIMove].from_position)
       /\ aiMove[2] = convertPosition(moves[lastAIMove].to_position)
    THEN LET validMoves == SelectSeq(EngineMoves(d),
                                     LAMBDA m : m[1] # aiMove[1] \/ m[2] # aiMove[2])
         IN  IF Len(validMoves) > 0 THEN validMoves[1] ELSE <<>>
    ELSE aiMove

\* await chooseAIMove(...), the repetition filter and the AI's move on the
\* engine
ChooseAI(c) ==
    LET call == calls[c] IN
    /\ call.pc = "chooseAIMove"
    /\ \E chosen \in chooseAIMove(call.draughts, games[call.gameId].ai_difficulty) :
          LET aiMove == AvoidRepeat(call.draughts, call.lastAIMove, chosen)
              moved == EngineMove(call.draughts, aiMove)
          IN  IF aiMove = <<>>
              THEN End(c, "OK", "moved")
              ELSE Goto(c, [call EXCEPT !.pc = "saveGameAI",
                                        !.aiMove = aiMove,
                                        !.draughts = moved,
                                        !.game.board = moved.board,
                                        !.game.total_moves = @ + 1])
    /\ UNCHANGED <<games, players, moves, now, started>>

\* await game.save() after the AI's move; player.tokens -= MOVE_COST
SaveGameAI(c) ==
    LET call == calls[c] IN
    /\ call.pc = "saveGameAI"
    /\ games' = [games EXCEPT ![call.gameId].board = call.game.board,
                              ![call.gameId].total_moves = call.game.total_moves]
    /\ Goto(c, [call EXCEPT !.pc = "savePlayerAI",
                            !.tokens = call.tokens - MOVE_COST,
                            !.effects = @ \cup {"gameAI"}])
    /\ UNCHANGED <<players, moves, now, started>>

\* await player.save() for the AI's half-move
SavePlayerAI(c) ==
    LET call == calls[c] IN
    /\ call.pc = "savePlayerAI"
    /\ players' = [players EXCEPT ![call.playerId].tokens = call.tokens]
    /\ Goto(c, [call EXCEPT !.pc = "createMoveAI", !.effects = @ \cup {"tokensAI"}])
    /\ UNCHANGED <<games, moves, now, started>>

\* await Move.create(...) for the AI's move, then the game-over check
CreateMoveAI(c) ==
    LET call == calls[c] IN
    /\ call.pc = "createMoveAI"
    /\ moves' = Append(moves,
                  [move_number |-> call.moveNumber + 1,
                   board |-> call.draughts.board,
                   from_position |-> convertPositionBack(call.aiMove[1]),
                   to_position |-> convertPositionBack(call.aiMove[2]),
                   piece_type |-> PieceType(call.savedBoard, call.aiMove[1]),
                   game_id |-> call.gameId,
                   user_id |-> NULL,
                   createdAt |-> now])
    /\ IF GameIsOver(call.draughts)
       THEN Goto(c, [call EXCEPT !.pc = "gameOver", !.effects = @ \cup {"moveAI"}])
       ELSE End(c, "OK", "movedWithAI")
    /\ UNCHANGED <<games, players, now, started>>

\* handleGameOver: winnerId from draughts.status and the game
GameOverWinner(status, game) ==
    IF status = "LIGHT_WON" THEN game.player_id
    ELSE IF status = "DARK_WON"
    THEN IF game.type = "pve" THEN AI_WINNER ELSE game.opponent_id
    ELSE NULL

\* handleGameOver: the message
GameOverMessage(status, game) ==
    IF status = "LIGHT_WON" THEN "You have won!"
    ELSE IF status = "DARK_WON"
    THEN IF game.type = "pve" THEN "The AI has won!" ELSE "Your opponent has won!"
    ELSE "The game ended in a draw!"

\* handleGameOver up to await game.save(): status, ended_at and winner_id
\* are the changed fields
GameOverSave(c) ==
    LET call == calls[c]
        status == EngineStatus(call.draughts)
        winnerId == GameOverWinner(status, games[call.gameId])
    IN
    /\ call.pc = "gameOver"
    /\ games' = [games EXCEPT ![call.gameId].status = "completed",
                              ![call.gameId].winner_id = winnerId]
    /\ IF winnerId # NULL
       THEN Goto(c, [call EXCEPT !.pc = "findWinner",
                                 !.winnerId = winnerId,
                                 !.game.status = "completed",
                                 !.game.winner_id = winnerId,
                                 !.effects = @ \cup {"completed"}])
       ELSE End(c, GameOverMessage(status, games[call.gameId]), "gameOver")
    /\ UNCHANGED <<players, moves, now, started>>

\* await Player.findByPk(winnerId); winner.score += 1
GameOverFindWinner(c) ==
    LET call == calls[c]
        status == EngineStatus(call.draughts)
    IN
    /\ call.pc = "findWinner"
    /\ IF call.winnerId \in DOMAIN players
       THEN Goto(c, [call EXCEPT !.pc = "saveWinner",
                                 !.score = players[call.winnerId].score + WIN_SCORE])
       ELSE End(c, GameOverMessage(status, games[call.gameId]), "gameOver")
    /\ UNCHANGED <<games, players, moves, now, started>>

\* await winner.save(), then the result of handleGameOver, which
\* executeMove returns
GameOverSaveWinner(c) ==
    LET call == calls[c]
        status == EngineStatus(call.draughts)
    IN
    /\ call.pc = "saveWinner"
    /\ players' = [players EXCEPT ![call.winnerId].score = call.score]
    /\ End(c, GameOverMessage(status, games[call.gameId]), "gameOver")
    /\ UNCHANGED <<games, moves, now, started>>

\* an awaited store operation rejects (connection lost, constraint error):
\* the operation has no effect and executeMove throws
Fail(c) ==
    /\ InFlight(c)
    /\ End(c, "Error", "storeError")
    /\ UNCHANGED <<games, players, moves, now, started>>

\* a minute passes and a timer ends the ongoing games that have a Move row
\* older than the threshold
TickEndsStaleGames ==
    /\ moves # <<>>
    /\ now < MaxTime
    /\ now' = now + 1
    /\ games' = [g \in GameIds |->
                   IF /\ games[g].status = "ongoing"
                      /\ \E i \in 1..Len(moves) :
                            /\ moves[i].game_id = g
                            /\ now + 1 - moves[i].createdAt > TIMEOUT_MINUTES
                   THEN [games[g] EXCEPT !.status = "timed out"]
                   ELSE games[g]]
    /\ UNCHANGED <<players, moves, calls, started, returned>>

\* a minute passes.  The clock is read only to stamp Move rows and to
\* compare with their stamps, so minute 0 is the minute of the first row.
Tick ==
    /\ moves # <<>>
    /\ now < MaxTime
    /\ now' = now + 1
    /\ UNCHANGED <<games, players, moves, calls, started, returned>>

Next ==
    \/ \E c \in CallIds, r \in Requests : Submit(c, r[1], r[3][1], r[3][2], r[2])
    \/ \E c \in CallIds : FindPlayer(c)
    \/ \E c \in CallIds : FindGame(c)
    \/ \E c \in CallIds : SavePlayer(c)
    \/ \E c \in CallIds : FindLast(c)
    \/ \E c \in CallIds : SaveTimeout(c)
    \/ \E c \in CallIds : FindPenalty(c)
    \/ \E c \in CallIds : SavePenalty(c)
    \/ \E c \in CallIds : SaveGame(c)
    \/ \E c \in CallIds : CreateMove(c)
    \/ \E c \in CallIds : FindLastAI(c)
    \/ \E c \in CallIds : ChooseAI(c)
    \/ \E c \in CallIds : SaveGameAI(c)
    \/ \E c \in CallIds : SavePlayerAI(c)
    \/ \E c \in CallIds : CreateMoveAI(c)
    \/ \E c \in CallIds : Fail(c)
    \/ Tick

Spec == Init /\ [][Next]_vars

\* ------------------------------------------------- the end of a game
\* Positions in which the game is over.  A call makes the player's move as
\* DARK (the engine is set up anew, DARK to move) and the AI's reply as
\* LIGHT, so after the player's move it is LIGHT's turn and after the AI's
\* move DARK's.
OneMan(square, piece) == [s \in Squares |-> IF s = square THEN piece ELSE "-"]
TwoMen == [s \in Squares |-> IF s = 35 THEN "d" ELSE IF s = 28 THEN "l" ELSE "-"]

\* DARK has taken LIGHT's last piece
DarkHasWon == [board |-> OneMan(35, "d"), player |-> "light"]
\* LIGHT has taken DARK's last piece
LightHasWon == [board |-> OneMan(28, "l"), player |-> "dark"]
\* the draw limit was reached with DARK's move, or with LIGHT's
DrawnAfterDark == [board |-> TwoMen, player |-> "light", drawn |-> TRUE]
DrawnAfterLight == [board |-> TwoMen, player |-> "dark", drawn |-> TRUE]

\* A call that is about to record a move that ends the game: who called,
\* whether the move is the player's or the AI's reply, and the engine after
\* the move.
Endings(type) ==
    [playerId : IF type = "pvp" THEN {1, 2} ELSE {1},
     stage : {"player"},
     d : {DarkHasWon, DrawnAfterDark}]
    \cup
    [playerId : IF type = "pvp" THEN {} ELSE {1},
     stage : {"ai"},
     d : {LightHasWon, DrawnAfterLight}]

\* the Move row of the player's move of such a call
PlayerRecord(e) ==
    [move_number |-> 1, board |-> EngineStart,
     from_position |-> <<"B", 6>>, to_position |-> <<"A", 5>>,
     piece_type |-> "single", game_id |-> 1, user_id |-> e.playerId,
     createdAt |-> 0]

\* the locals of executeMove right before Move.create of the move that
\* ends the game: game.save() is done (and, for the AI's move, the second
\* player.save())
CallAtEnding(e) ==
    LET done == IF e.stage = "player" THEN 1 ELSE 2 IN
    [IdleCall EXCEPT
        !.pc = IF e.stage = "player" THEN "createMove" ELSE "createMoveAI",
        !.gameId = 1,
        !.playerId = e.playerId,
        !.from = <<"B", 6>>,
        !.to = <<"A", 5>>,
        !.tokens = InitTokens - done * MOVE_COST,
        !.game = [status |-> "ongoing", board |-> e.d.board,
                  total_moves |-> done, winner_id |-> NULL],
        !.draughts = e.d,
        !.moveToMake = <<17, 24>>,
        !.moveNumber = 1,
        !.aiMove = IF e.stage = "player" THEN <<>> ELSE <<42, 33>>,
        !.effects = IF e.stage = "player" THEN {"tokens", "game"}
                    ELSE {"tokens", "game", "move", "gameAI", "tokensAI"}]

\* One or two calls on game 1 are about to record a move that ends it; two
\* calls have reached the same position.
InitGameOver ==
    \E type \in {"pvp", "pve"} :
    \E e1 \in Endings(type) :
    \E second \in SUBSET { e2 \in Endings(type) : e2.d = e1.d } :
        /\ Cardinality(second) <= 1
        /\ games = [g \in GameIds |->
                      [CreatedGame(type) EXCEPT
                          !.board = e1.d.board,
                          !.total_moves = IF e1.stage = "player" THEN 1 ELSE 2]]
        /\ players = [p \in PlayerIds |->
                        [tokens |-> IF p = e1.playerId
                                    THEN CallAtEnding(e1).tokens ELSE InitTokens,
                         score |-> 0]]
        /\ moves = (IF e1.stage = "ai" THEN <<PlayerRecord(e1)>> ELSE <<>>)
                   \o (IF \E e2 \in second : e2.stage = "ai"
                       THEN <<PlayerRecord(CHOOSE e2 \in second : TRUE)>> ELSE <<>>)
        /\ now = 0
        /\ calls = [c \in CallIds |->
                      IF c = 1 THEN CallAtEnding(e1)
                      ELSE IF second = {} THEN IdleCall
                      ELSE CallAtEnding(CHOOSE e2 \in second : TRUE)]
        /\ started = 1 + Cardinality(second)
        /\ returned = Return(0, "", "")

NextGameOver ==
    \/ \E c \in CallIds : CreateMove(c)
    \/ \E c \in CallIds : CreateMoveAI(c)
    \/ \E c \in CallIds : GameOverSave(c)
    \/ \E c \in CallIds : GameOverFindWinner(c)
    \/ \E c \in CallIds : GameOverSaveWinner(c)
    \/ \E c \in CallIds : Fail(c)

SpecGameOver == InitGameOver /\ [][NextGameOver]_vars

\* ------------------------------------------------------ the AI's reply
\* Positions after the player's move, LIGHT (the AI) to move, with a dark
\* man far from the light one: the light man on A3 has the one move A3-B4,
\* the light man on C3 has the two moves C3-B4 and C3-D4.
OneReply ==
    [board |-> [s \in Squares |-> IF s = 1 THEN "d" ELSE IF s = 40 THEN "l" ELSE "-"],
     player |-> "light"]
TwoReplies ==
    [board |-> [s \in Squares |-> IF s = 1 THEN "d" ELSE IF s = 42 THEN "l" ELSE "-"],
     player |-> "light"]

\* the light man on B4 must capture the dark man on C5 (B4 x D6); a second
\* dark man is far away
CaptureReply ==
    [board |-> [s \in Squares |-> IF s \in {1, 26} THEN "d"
                                  ELSE IF s = 33 THEN "l" ELSE "-"],
     player |-> "light"]
\* the light man on C7 reaches the farthest rank with either of its two
\* moves, C7-B8 and C7-D8
PromotionReply ==
    [board |-> [s \in Squares |-> IF s = 46 THEN "d"
                                  ELSE IF s = 10 THEN "l" ELSE "-"],
     player |-> "light"]

\* the Move row of an earlier reply of the AI: the first legal move of d
AIRecord(d) ==
    [move_number |-> 2, board |-> EngineStart,
     from_position |-> convertPositionBack(EngineMoves(d)[1][1]),
     to_position |-> convertPositionBack(EngineMoves(d)[1][2]),
     piece_type |-> "single", game_id |-> 1, user_id |-> NULL,
     createdAt |-> 0]

\* the locals of executeMove after Move.create of the player's move in a
\* PvE game that goes on, with n Move rows in the game
CallAtReply(d, n) ==
    [IdleCall EXCEPT
        !.pc = "findLastAIMove",
        !.gameId = 1,
        !.playerId = 1,
        !.from = <<"B", 6>>,
        !.to = <<"C", 5>>,
        !.tokens = InitTokens - MOVE_COST,
        !.game = [status |-> "ongoing", board |-> d.board,
                  total_moves |-> n, winner_id |-> NULL],
        !.draughts = d,
        !.moveToMake = <<17, 26>>,
        !.moveNumber = n,
        !.effects = {"tokens", "game", "move"}]

\* One or two calls on PvE game 1 have recorded the player's move and are
\* about to ask for the AI's last move; the AI has replied before, or not;
\* the game has one of the two difficulties createGame accepts.
InitAIReply ==
    \E d \in {OneReply, TwoReplies, CaptureReply, PromotionReply} :
    \E difficulty \in {"easy", "hard"} :
    \E earlier \in BOOLEAN :
    \E both \in BOOLEAN :
        LET before == IF earlier
                      THEN <<PlayerRecord([playerId |-> 1]), AIRecord(d)>>
                      ELSE <<>>
            n == Len(before) + 1
        IN
        /\ games = [g \in GameIds |->
                      [CreatedGame("pve") EXCEPT !.ai_difficulty = difficulty,
                                                 !.board = d.board,
                                                 !.total_moves = n]]
        /\ players = [p \in PlayerIds |->
                        [tokens |-> IF p = 1 THEN InitTokens - MOVE_COST ELSE InitTokens,
                         score |-> 0]]
        /\ moves = before \o
                   <<[PlayerRecord([playerId |-> 1]) EXCEPT
                         !.move_number = n, !.to_position = <<"C", 5>>]>>
                   \o (IF both
                       THEN <<[PlayerRecord([playerId |-> 1]) EXCEPT
                                  !.move_number = n, !.to_position = <<"C", 5>>]>>
                       ELSE <<>>)
        /\ now = 0
        /\ calls = [c \in CallIds |->
                      IF c = 1 \/ both THEN CallAtReply(d, n) ELSE IdleCall]
        /\ started = IF both THEN 2 ELSE 1
        /\ returned = Return(0, "", "")

NextAIReply ==
    \/ \E c \in CallIds : FindLastAI(c)
    \/ \E c \in CallIds : ChooseAI(c)
    \/ \E c \in CallIds : SaveGameAI(c)
    \/ \E c \in CallIds : SavePlayerAI(c)
    \/ \E c \in CallIds : CreateMoveAI(c)
    \/ \E c \in CallIds : Fail(c)

SpecAIReply == InitAIReply /\ [][NextAIReply]_vars

\* ------------------------------------------------------ all of the above
\* every start and every step of the three specifications
InitAll == Init \/ InitGameOver \/ InitAIReply

NextAll ==
    \/ Next
    \/ \E c \in CallIds : GameOverSave(c)
    \/ \E c \in CallIds : GameOverFindWinner(c)
    \/ \E c \in CallIds : GameOverSaveWinner(c)

SpecAll == InitAll /\ [][NextAll]_vars

\* ---------------------------------------------------------- two games
\* Two created games side by side: PvP game 1 of players 1 and 2 and PvE
\* game 2 of player 3.
InitTwoGames ==
    /\ games = [g \in GameIdInputs |->
                  IF g = 1 THEN CreatedGame("pvp")
                  ELSE [CreatedGame("pve") EXCEPT !.player_id = 3]]
    /\ players = [p \in PlayerIds |-> [tokens |-> InitTokens, score |-> 0]]
    /\ moves = <<>>
    /\ now = 0
    /\ calls = [c \in CallIds |-> IdleCall]
    /\ started = 0
    /\ returned = Return(0, "", "")

\* the requests: every move input by a participant of either game, and one
\* by player 3 for game 1
RequestsTwoGames ==
    { r \in GameIdInputs \X PlayerIds \X MoveInputs :
        \/ r[1] = 1 /\ r[2] \in {1, 2}
        \/ r[1] = 2 /\ r[2] = 3
        \/ r[1] = 1 /\ r[2] = 3 /\ r[3][1] = <<"B", 6>> /\ r[3][2] = <<"A", 5>> }

NextTwoGames ==
    \/ \E c \in CallIds, r \in RequestsTwoGames : Submit(c, r[1], r[3][1], r[3][2], r[2])
    \/ \E c \in CallIds : FindPlayer(c)
    \/ \E c \in CallIds : FindGame(c)
    \/ \E c \in CallIds : SavePlayer(c)
    \/ \E c \in CallIds : FindLast(c)
    \/ \E c \in CallIds : SaveTimeout(c)
    \/ \E c \in CallIds : FindPenalty(c)
    \/ \E c \in CallIds : SavePenalty(c)
    \/ \E c \in CallIds : SaveGame(c)
    \/ \E c \in CallIds : CreateMove(c)
    \/ \E c \in CallIds : FindLastAI(c)
    \/ \E c \in CallIds : ChooseAI(c)
    \/ \E c \in CallIds : SaveGameAI(c)
    \/ \E c \in CallIds : SavePlayerAI(c)
    \/ \E c \in CallIds : CreateMoveAI(c)
    \/ \E c \in CallIds : Fail(c)
    \/ Tick

SpecTwoGames == InitTwoGames /\ [][NextTwoGames]_vars

\* ------------------------------------------------------- game creation
\* POST /create/new-game: gameController.createGame, one action per await.
\* An e-mail address is written as the id of the player it belongs to, 0
\* when the request has none; address 4 belongs to nobody.
NoEmail == 0
OpponentEmails == {NoEmail} \cup PlayerIds \cup {4}
\* ai_difficulty of the request: "" when the request has none
DifficultyInputs == {"", "absent", "easy", "hard", "expert"}

InitCreate ==
    /\ games = <<>>
    /\ players = [p \in PlayerIds |-> [tokens |-> InitTokens, score |-> 0]]
    /\ moves = <<>>
    /\ now = 0
    /\ calls = [c \in CallIds |-> IdleCall]
    /\ started = 0
    /\ returned = Return(0, "", "")

\* the controller is called for an authenticated player: its locals
CreateGameRequest(c, playerId, opponent_email, ai_difficulty) ==
    /\ ~InFlight(c)
    /\ started < MaxCalls
    /\ c = 2 => InFlight(1)
    /\ started' = started + 1
    /\ Goto(c, [pc |-> IF opponent_email # NoEmail THEN "findOpponent"
                       ELSE "findActiveGame",
                playerId |-> playerId,
                opponent_email |-> opponent_email,
                ai_difficulty |-> ai_difficulty,
                opponentId |-> NULL,
                type |-> ""])
    /\ UNCHANGED <<games, players, moves, now>>

\* await Player.findOne({where: {email: opponent_email}})
CreateFindOpponent(c) ==
    LET call == calls[c] IN
    /\ call.pc = "findOpponent"
    /\ IF call.opponent_email \notin DOMAIN players
       THEN End(c, "OPPONENT_NOT_FOUND", "opponentNotFound")
       ELSE Goto(c, [call EXCEPT !.pc = "findActiveGame",
                                 !.opponentId = call.opponent_email])
    /\ UNCHANGED <<games, players, moves, now, started>>

\* gameService.findActiveGameForPlayer(playerId, opponentId): the ongoing
\* games in which one of the two takes part
ActiveGamesFor(playerId, opponentId) ==
    { g \in DOMAIN games :
        /\ games[g].status = "ongoing"
        /\ \E p \in {playerId, opponentId} \ {NULL} :
              games[g].player_id = p \/ games[g].opponent_id = p }

\* the checks without the one that refuses a request with both parameters
CreateGameChecksAcceptingBoth(call, existingGame) ==
    IF /\ existingGame # NULL
       /\ games[existingGame].status = "ongoing"
       /\ (\/ games[existingGame].player_id = call.playerId
           \/ games[existingGame].opponent_id = call.playerId)
    THEN <<"PLAYER_ALREADY_IN_GAME", "">>
    ELSE IF /\ existingGame # NULL
            /\ games[existingGame].status = "ongoing"
            /\ call.opponentId # NULL
            /\ (\/ games[existingGame].player_id = call.opponentId
                \/ games[existingGame].opponent_id = call.opponentId)
    THEN <<"OPPONENT_ALREADY_IN_GAME", "">>
    ELSE IF call.playerId = call.opponent_email
    THEN <<"SELF_CHALLENGE_NOT_ALLOWED", "">>
    ELSE IF call.opponent_email # NoEmail
    THEN <<"", "pvp">>
    ELSE IF call.ai_difficulty # ""
    THEN IF call.ai_difficulty \notin {"easy", "hard"}
         THEN <<"INVALID_DIFFICULTY", "">>
         ELSE <<"", "pve">>
    ELSE <<"MISSING_GAME_PARAMETERS", "">>

\* the checks of createGame on the game found (NULL: none) and on the
\* request: the error, or "" and the type of the game
CreateGameChecks(call, existingGame) ==
    IF /\ existingGame # NULL
       /\ games[existingGame].status = "ongoing"
       /\ (\/ games[existingGame].player_id = call.playerId
           \/ games[existingGame].opponent_id = call.playerId)
    THEN <<"PLAYER_ALREADY_IN_GAME", "">>
    ELSE IF /\ existingGame # NULL
            /\ games[existingGame].status = "ongoing"
            /\ call.opponentId # NULL
            /\ (\/ games[existingGame].player_id = call.opponentId
                \/ games[existingGame].opponent_id = call.opponentId)
    THEN <<"OPPONENT_ALREADY_IN_GAME", "">>
    ELSE IF call.playerId = call.opponent_email
    THEN <<"SELF_CHALLENGE_NOT_ALLOWED", "">>
    ELSE IF call.opponent_email # NoEmail /\ call.ai_difficulty # ""
    THEN <<"INVALID_GAME_PARAMETERS", "">>
    ELSE IF call.opponent_email # NoEmail
    THEN <<"", "pvp">>
    ELSE IF call.ai_difficulty # ""
    THEN IF call.ai_difficulty \notin {"easy", "hard"}
         THEN <<"INVALID_DIFFICULTY", "">>
         ELSE <<"", "pve">>
    ELSE <<"MISSING_GAME_PARAMETERS", "">>

\* await gameService.findActiveGameForPlayer(...), then the checks
CreateFindActiveGame(c) ==
    LET call == calls[c]
        found == ActiveGamesFor(call.playerId, call.opponentId)
    IN
    /\ call.pc = "findActiveGame"
    /\ \E existingGame \in (IF found = {} THEN {NULL} ELSE found) :
          LET checked == CreateGameChecks(call, existingGame) IN
          IF checked[1] # ""
          THEN End(c, checked[1], "createRefused")
          ELSE Goto(c, [call EXCEPT !.pc = "createGame", !.type = checked[2]])
    /\ UNCHANGED <<games, players, moves, now, started>>

\* the row gameService.createGame stores
NewGame(playerId, opponentId, type, ai_difficulty) ==
    [CreatedGame(type) EXCEPT
        !.player_id = playerId,
        !.opponent_id = opponentId,
        !.ai_difficulty = IF type = "pvp" THEN "absent" ELSE ai_difficulty]

\* await gameService.createGame(...): the row gets the next game_id
CreateInsertGame(c) ==
    LET call == calls[c]
        game_id == Cardinality(DOMAIN games) + 1
    IN
    /\ call.pc = "createGame"
    /\ games' = [g \in DOMAIN games \cup {game_id} |->
                   IF g = game_id
                   THEN NewGame(call.playerId, call.opponentId, call.type,
                                call.ai_difficulty)
                   ELSE games[g]]
    /\ End(c, "201", "created")
    /\ UNCHANGED <<players, moves, now, started>>

NextCreate ==
    \/ \E c \in CallIds, p \in PlayerIds, o \in OpponentEmails, d \in DifficultyInputs :
          CreateGameRequest(c, p, o, d)
    \/ \E c \in CallIds : CreateFindOpponent(c)
    \/ \E c \in CallIds : CreateFindActiveGame(c)
    \/ \E c \in CallIds : CreateInsertGame(c)
    \/ \E c \in CallIds : Fail(c)

SpecCreate == InitCreate /\ [][NextCreate]_vars

\* ---------------------------------------------------------- properties
\* rows of table Move that belong to game g, as indices into `moves`
RecordsOf(g) == { i \in 1..Len(moves) : moves[i].game_id = g }

\* call c holds a loaded session that it has not finished persisting
Loaded(c) == calls[c].pc \notin {"idle", "findPlayer", "findGame"}

\* call c ends in this step with the given exit
EndsWith(c, exit) ==
    /\ InFlight(c)
    /\ calls'[c].pc = "idle"
    /\ returned' = Return(c, returned'.result, exit)

\* call c takes a step of executeMove (not a rejected store operation)
Steps(c) ==
    /\ calls'[c] # calls[c]
    /\ ~EndsWith(c, "storeError")

\* what the call has written to the session or its history so far
SessionWrites == {"game", "move", "gameAI", "moveAI", "status"}

\* C1: calls of executeMove on one session are serialized: at most one call
\* at a time is between loading the session and its last persist step.
C1_OneCallPerSession ==
    \A c1, c2 \in CallIds :
        (c1 # c2 /\ Loaded(c1) /\ Loaded(c2)) => calls[c1].gameId # calls[c2].gameId

\* C2: once a session's status is terminal, no step changes its status,
\* board, total_moves or winner_id, and no Move row is added to it.
C2_TerminalIsImmutable ==
    [][\A g \in GameIds :
          games[g].status # "ongoing" =>
              /\ games'[g] = games[g]
              /\ \A i \in 1..Len(moves') : moves'[i].game_id = g => i <= Len(moves)]_vars

\* C3: the timeout check precedes move validation: a call by a participant
\* of an ongoing session whose last recorded move is older than the
\* threshold is never ended by the move validation.
C3_TimeoutBeforeValidation ==
    [][\A c \in CallIds :
          (/\ EndsWith(c, "notLegal")
           /\ games[calls[c].gameId].status = "ongoing")
          => ~TimedOut(FindLastMove(calls[c].gameId, calls[c].playerId), now)]_vars

\* the participant of game g other than player p
OtherParticipant(g, p) ==
    CHOOSE q \in {games[g].player_id, games[g].opponent_id} : q # p

C5_TotalMovesCountsRecords ==
    \A g \in GameIds :
        (\A c \in CallIds : InFlight(c) => calls[c].gameId # g)
        => games[g].total_moves = Cardinality(RecordsOf(g))

\* C6: within one session move_number is strictly increasing in creation
\* order, so no two rows carry the same number.
C6_SequenceNumbersIncrease ==
    \A i, j \in 1..Len(moves) :
        (i < j /\ moves[i].game_id = moves[j].game_id)
        => moves[i].move_number < moves[j].move_number

\* C7: two Move rows of a session that follow one another never have the
\* same actor.
C7_ActorsAlternate ==
    \A i, j \in 1..Len(moves) :
        (/\ i < j
         /\ moves[i].game_id = moves[j].game_id
         /\ \A k \in (i + 1)..(j - 1) : moves[k].game_id # moves[i].game_id)
        => moves[i].user_id # moves[j].user_id

\* the caller's newest Move row repeats the submitted (from, to)
RepeatsLastMove(c) ==
    LET last == FindLastMove(calls[c].gameId, calls[c].playerId)
    IN  /\ last # 0
        /\ moves[last].from_position = calls[c].from
        /\ moves[last].to_position = calls[c].to

\* C8: a call by a participant who is not timed out and whose (from, to)
\* repeats that participant's last recorded move gets NOT_VALID_MOVE: the
\* validation does not let it through to a save, the duplicate check ends
\* it, and up to there the call has written nothing to the session and adds
\* no Move row.
C8_DuplicateIsRejected ==
    [][\A c \in CallIds :
          (/\ calls[c].pc \in {"savePlayer", "findLastMove"}
           /\ Steps(c)
           /\ RepeatsLastMove(c)
           /\ ~TimedOut(FindLastMove(calls[c].gameId, calls[c].playerId), now))
          => /\ \/ calls[c].pc = "savePlayer" /\ calls'[c].pc = "findLastMove"
                \/ /\ calls'[c].pc = "idle"
                   /\ returned' = Return(c, "NOT_VALID_MOVE", returned'.exit)
             /\ calls[c].pc = "findLastMove" => EndsWith(c, "sameAsLast")
             /\ games' = games
             /\ moves' = moves
             /\ calls[c].effects \cap SessionWrites = {}]_vars

\* C8 witness: a call has been ended by the duplicate check
C8_Witness ==
    /\ returned.exit = "sameAsLast"
    /\ returned.result = "NOT_VALID_MOVE"
    /\ moves # <<>>

\* the board a call loaded, read as a position: "B" and "W" are the men
\* createGame places, the other values are the engine's
ReadBoard(board) ==
    [s \in Squares |->
        IF board[s] = "B" THEN "d" ELSE IF board[s] = "W" THEN "l" ELSE board[s]]

\* the side to move in a session with n committed moves: dark begins
SideToMove(n) == IF n % 2 = 0 THEN "dark" ELSE "light"

\* the submitted move of call c is a legal move of the board the call
\* loaded, for the side to move
LegalOnLoadedBoard(c) ==
    <<convertPosition(calls[c].from), convertPosition(calls[c].to)>>
        \in LegalMoveSet(ReadBoard(calls[c].savedBoard),
                         SideToMove(calls[c].game.total_moves))

\* C9: a submitted move that is no legal move of the persisted board for the
\* side to move is ended by the validation with NOT_VALID_MOVE, and the
\* session and its Move rows stay as they are.
C9_IllegalIsRejected ==
    [][\A c \in CallIds :
          (calls[c].pc = "savePlayer" /\ Steps(c) /\ ~LegalOnLoadedBoard(c))
          => /\ EndsWith(c, "notLegal")
             /\ returned'.result = "NOT_VALID_MOVE"
             /\ games' = games
             /\ moves' = moves]_vars

\* exits of a call whose move is not committed
RejectedExits == {"notLegal", "sameAsLast", "timeout"}

\* C10: a call that ends with a rejected move or with a timeout has not
\* written the actor's token balance, neither in its last step nor before.
C10_DebitOnlyForCommittedMove ==
    [][\A c \in CallIds :
          (\E e \in RejectedExits : EndsWith(c, e))
          => /\ "tokens" \notin calls[c].effects
             /\ players'[calls[c].playerId].tokens = players[calls[c].playerId].tokens]_vars

\* call c is a participant's call on an ongoing game, about to be debited
AboutToDebit(c) ==
    /\ calls[c].pc = "findGame"
    /\ calls[c].gameId \in DOMAIN games
    /\ games[calls[c].gameId].status = "ongoing"
    /\ calls[c].playerId \in {games[calls[c].gameId].player_id,
                              games[calls[c].gameId].opponent_id}

\* C11: a call whose actor holds fewer tokens than a move costs ends where
\* the debit is made, before anything is written, and no balance is ever
\* negative.
C11_InsufficientBalanceIsRejected ==
    [][/\ \A c \in CallIds :
             (AboutToDebit(c) /\ Steps(c) /\ calls[c].tokens < MOVE_COST)
             => calls'[c].pc = "idle"
       /\ \A p \in PlayerIds : players'[p].tokens >= 0]_vars

\* C12: a call for a game id with no row gets GAME_NOT_FOUND, a call for a
\* game that is not ongoing gets GAME_NOT_IN_PROGRESS whoever the caller
\* is, and in both cases the call has written nothing: games, Move rows and
\* players stay as they are.
C12_MissingOrEndedGame ==
    [][\A c \in CallIds :
          (calls[c].pc = "findGame" /\ Steps(c)) =>
              LET g == calls[c].gameId IN
              /\ g \notin DOMAIN games =>
                    returned' = Return(c, "GAME_NOT_FOUND", "gameNotFound")
              /\ (g \in DOMAIN games /\ games[g].status # "ongoing") =>
                    returned' = Return(c, "GAME_NOT_IN_PROGRESS", "notInProgress")
              /\ (g \notin DOMAIN games \/ games[g].status # "ongoing") =>
                    /\ calls'[c].pc = "idle"
                    /\ games' = games /\ moves' = moves /\ players' = players
                    /\ calls[c].effects = {}]_vars

\* C12 witness: a call on a game that has ended got GAME_NOT_IN_PROGRESS
C12_Witness ==
    /\ returned = Return(returned.call, "GAME_NOT_IN_PROGRESS", "notInProgress")
    /\ returned.call \in CallIds
    /\ \E g \in GameIds : games[g].status # "ongoing"

\* C13: a call on an ongoing game by a player who is neither its player_id
\* nor its opponent_id gets UNAUTHORIZED and has written nothing: games,
\* Move rows and every player's tokens and score stay as they are.
C13_NonParticipantIsRejected ==
    [][\A c \in CallIds :
          (/\ calls[c].pc = "findGame"
           /\ Steps(c)
           /\ calls[c].gameId \in DOMAIN games
           /\ games[calls[c].gameId].status = "ongoing"
           /\ calls[c].playerId \notin {games[calls[c].gameId].player_id,
                                        games[calls[c].gameId].opponent_id})
          => /\ returned' = Return(c, "UNAUTHORIZED", "notParticipant")
             /\ calls'[c].pc = "idle"
             /\ games' = games /\ moves' = moves /\ players' = players
             /\ calls[c].effects = {}]_vars

\* C13 witness: a non-participant's call got UNAUTHORIZED
C13_Witness ==
    /\ returned = Return(returned.call, "UNAUTHORIZED", "notParticipant")
    /\ returned.call \in CallIds

\* the positions of a call inside handleGameOver
GameOverSteps == {"gameOver", "findWinner", "saveWinner"}

\* the move that ended the game in call c was the AI's reply
AIMovedLast(c) == "moveAI" \in calls[c].effects

\* the winner the finished game of call c should get: nobody on a draw;
\* the side that made the last move when the engine says that side has won
\* (the caller, or the AI after its reply); else the other side
WinnerByMover(c) ==
    LET g == calls[c].gameId
        d == calls[c].draughts
        status == EngineStatus(d)
        moverWon == status = (IF d.player = "light" THEN "DARK_WON" ELSE "LIGHT_WON")
        mover == IF AIMovedLast(c) THEN AI_WINNER ELSE calls[c].playerId
        other == IF games[g].type = "pve"
                 THEN (IF AIMovedLast(c) THEN games[g].player_id ELSE AI_WINNER)
                 ELSE OtherParticipant(g, calls[c].playerId)
    IN  IF status = "DRAW" THEN NULL
        ELSE IF moverWon THEN mover ELSE other

C17_NoAITurnAfterTheEnd ==
    [][\A c \in CallIds :
          /\ (/\ calls[c].pc = "createMove"
              /\ Steps(c)
              /\ EngineStatus(calls[c].draughts) # "PLAYING")
             => calls'[c].pc = "gameOver"
          /\ (calls[c].pc \in GameOverSteps /\ Steps(c) /\ ~AIMovedLast(c))
             => /\ calls'[c].pc \in (GameOverSteps \ {"gameOver"}) \cup {"idle"}
                /\ calls'[c].pc = "idle" => returned'.exit = "gameOver"
                /\ moves' = moves
                /\ games'[calls[c].gameId].board = games[calls[c].gameId].board
                /\ games'[calls[c].gameId].total_moves = games[calls[c].gameId].total_moves
                /\ \A p \in PlayerIds : players'[p].tokens = players[p].tokens
                /\ calls[c].effects \cap {"gameAI", "tokensAI", "moveAI"} = {}]_vars

\* C17 witness: a PvE call has returned from handleGameOver after the
\* player's move: one Move row, the player's, and total_moves = 1
C17_Witness ==
    /\ returned.exit = "gameOver"
    /\ \E g \in GameIds :
          /\ games[g].type = "pve"
          /\ games[g].status = "completed"
          /\ games[g].total_moves = 1
    /\ Len(moves) = 1
    /\ moves[1].user_id # NULL
    /\ \A c \in CallIds : ~InFlight(c)

C18_NoHalfAppliedRound ==
    [][\A c \in CallIds :
          (/\ EndsWith(c, "storeError")
           /\ "move" \in calls[c].effects
           /\ games[calls[c].gameId].type = "pve")
          => LET rec == moves[FindLastMove(calls[c].gameId, calls[c].playerId)]
             IN  /\ games'[calls[c].gameId].board = rec.board
                 /\ games'[calls[c].gameId].total_moves = rec.move_number]_vars

\* C19: the passage of time changes no game, no player and no Move row,
\* and an ongoing game leaves that status only in the step of a call on it
\* that saves the timeout.
C19_TimeoutIsLazy ==
    [][/\ now' # now =>
             (games' = games /\ players' = players /\ moves' = moves)
       /\ \A g \in GameIds :
             (games[g].status = "ongoing" /\ games'[g].status # "ongoing")
             => \E c \in CallIds :
                   /\ calls[c].gameId = g
                   /\ calls[c].pc = "saveTimeout"
                   /\ Steps(c)]_vars

\* C19 witness: a participant's last move is older than the threshold, no
\* call is in flight, and the game is still ongoing with no winner
C19_Witness ==
    /\ \A c \in CallIds : ~InFlight(c)
    /\ \E g \in GameIds :
          /\ games[g].status = "ongoing"
          /\ games[g].winner_id = NULL
          /\ \E p \in {games[g].player_id, games[g].opponent_id} \ {NULL} :
                TimedOut(FindLastMove(g, p), now)

\* C20: an ongoing game has no winner, before and after every step, and
\* winner_id changes only in a step of a call on that game that saves a
\* terminal status with it: the timeout's save or handleGameOver's.
C20_WinnerOnlyWithTerminalStatus ==
    [][\A g \in GameIds :
          /\ games[g].status = "ongoing" => games[g].winner_id = NULL
          /\ games'[g].status = "ongoing" => games'[g].winner_id = NULL
          /\ games'[g].winner_id # games[g].winner_id =>
                /\ games'[g].status \in {"completed", "timed out"}
                /\ \E c \in CallIds :
                      /\ calls[c].gameId = g
                      /\ calls[c].pc \in {"saveTimeout", "gameOver"}
                      /\ Steps(c)]_vars

\* C20 witness: handleGameOver has completed a game and named its winner
C20_Witness ==
    /\ returned.exit = "gameOver"
    /\ \E g \in GameIds :
          games[g].status = "completed" /\ games[g].winner_id \notin {NULL, AI_WINNER}

C22_AIMoveIsLegal ==
    [][\A c \in CallIds :
          (/\ calls[c].pc = "chooseAIMove"
           /\ Steps(c)
           /\ calls'[c].pc = "saveGameAI")
          => /\ calls[c].draughts.player = "light"
             /\ calls'[c].aiMove \in LegalMoveSet(calls[c].draughts.board, "light")
             /\ calls'[c].draughts = EngineMove(calls[c].draughts, calls'[c].aiMove)]_vars

\* C22 witness: in a game of difficulty easy the AI has replied before and
\* a call has applied and saved another reply that differs from the AI's
\* last recorded move
C22_Witness ==
    \E c \in CallIds :
        /\ calls[c].pc = "savePlayerAI"
        /\ games[calls[c].gameId].ai_difficulty = "easy"
        /\ calls[c].lastAIMove # 0
        /\ calls[c].aiMove # <<>>
        /\ calls[c].aiMove # <<convertPosition(moves[calls[c].lastAIMove].from_position),
                                convertPosition(moves[calls[c].lastAIMove].to_position)>>

RepeatsLastAIMove(lastAIMove, chosen) ==
    /\ lastAIMove # 0
    /\ chosen = <<convertPosition(moves[lastAIMove].from_position),
                  convertPosition(moves[lastAIMove].to_position)>>

C25_RoundDebit ==
    [][\A c \in CallIds :
          /\ (calls[c].pc \in {"savePlayer", "savePlayerAI"} /\ Steps(c))
             => /\ players'[calls[c].playerId].tokens =
                      players[calls[c].playerId].tokens - MOVE_COST
                /\ \A p \in PlayerIds \ {calls[c].playerId} :
                      players'[p].tokens = players[p].tokens
          /\ (calls[c].pc \notin {"savePlayer", "savePlayerAI"} /\ Steps(c))
             => \A p \in PlayerIds : players'[p].tokens = players[p].tokens
          /\ EndsWith(c, "movedWithAI")
             => {"tokens", "tokensAI"} \subseteq calls[c].effects
          /\ (EndsWith(c, "moved") /\ games[calls[c].gameId].type = "pvp")
             => ("tokens" \in calls[c].effects /\ "tokensAI" \notin calls[c].effects)]_vars

\* the capturing moves the persisted board of game g offers the side to
\* move
CapturesOnPersistedBoard(g) ==
    JumpMoves(ReadBoard(games[g].board), SideToMove(games[g].total_moves))

\* C26: when the persisted board offers the side to move a capture, the
\* player's move a call commits is one of these captures, and so is the
\* AI's reply on the board after the player's move.
C26_CaptureIsMandatory ==
    [][\A c \in CallIds :
          /\ (/\ calls[c].pc = "saveGame"
              /\ Steps(c)
              /\ CapturesOnPersistedBoard(calls[c].gameId) # {})
             => calls[c].moveToMake \in CapturesOnPersistedBoard(calls[c].gameId)
          /\ (/\ calls[c].pc = "chooseAIMove"
              /\ Steps(c)
              /\ calls'[c].pc = "saveGameAI"
              /\ JumpMoves(calls[c].draughts.board, "light") # {})
             => calls'[c].aiMove \in JumpMoves(calls[c].draughts.board, "light")]_vars

\* call c commits a board in this step: game.save() after the player's
\* move or after the AI's
Commits(c) == calls[c].pc \in {"saveGame", "saveGameAI"} /\ Steps(c)

\* the move of that commit and the side that made it
CommittedMove(c) == IF calls[c].pc = "saveGame" THEN calls[c].moveToMake ELSE calls[c].aiMove
CommittedSide(c) == IF calls[c].pc = "saveGame" THEN "dark" ELSE "light"

\* the squares of board b that hold one of the given pieces
SquaresWith(b, pieces) == { s \in Squares : b[s] \in pieces }

FarthestRank(side) == IF side = "dark" THEN 7 ELSE 0

CapturedBy(b, m, side) ==
    LET mid == Sq((Row(m[1]) + Row(m[2])) \div 2, (Col(m[1]) + Col(m[2])) \div 2)
    IN  IF Row(m[2]) - Row(m[1]) \in {-2, 2} /\ b[mid] \in PiecesOf(side)
        THEN {mid} ELSE {}

C29_SessionsAreIndependent ==
    [][\A c \in CallIds :
          (InFlight(c) /\ calls'[c] # calls[c]) =>
              /\ \A g \in DOMAIN games \ {calls[c].gameId} : games'[g] = games[g]
              /\ Len(moves') >= Len(moves)
              /\ SubSeq(moves', 1, Len(moves)) = moves
              /\ \A i \in (Len(moves) + 1)..Len(moves') :
                    moves'[i].game_id = calls[c].gameId]_vars

\* C29 witness: both games have been played in: game 1 has the Move row of
\* its one move, game 2 those of a round with the AI's reply
C29_Witness ==
    /\ DOMAIN games = {1, 2}
    /\ games[1].total_moves = 1
    /\ games[2].total_moves = 2
    /\ \E i \in 1..Len(moves) : moves[i].game_id = 1
    /\ \E i \in 1..Len(moves) : moves[i].game_id = 2 /\ moves[i].user_id = NULL
    /\ games[1].board # games[2].board

\* the players of game g
Participants(g) == {games[g].player_id, games[g].opponent_id} \ {NULL}

\* C30: no player takes part in two ongoing games.
C30_OneActiveGamePerUser ==
    \A g1, g2 \in DOMAIN games :
        (g1 # g2 /\ games[g1].status = "ongoing" /\ games[g2].status = "ongoing")
        => Participants(g1) \cap Participants(g2) = {}

\* ------------------------------------------------- position conversion
\* The two conversions as functions of their input: a step converts an
\* algebraic square or a linear index and `returned` shows the input as
\* result and the output as exit, an index i written as <<i>>.
AlgebraicSquares == { <<Letters[f], r>> : f \in 1..8, r \in 1..8 }
Indices == { <<i>> : i \in Squares }

InitConvert ==
    /\ games = [g \in GameIds |-> CreatedGame("pvp")]
    /\ players = [p \in PlayerIds |-> [tokens |-> InitTokens, score |-> 0]]
    /\ moves = <<>>
    /\ now = 0
    /\ calls = [c \in CallIds |-> IdleCall]
    /\ started = 0
    /\ returned = Return(0, <<>>, <<>>)

Convert(position) ==
    /\ returned' = Return(0, position, <<convertPosition(position)>>)
    /\ UNCHANGED <<games, players, moves, now, calls, started>>

ConvertBack(index) ==
    /\ returned' = Return(0, <<index>>, convertPositionBack(index))
    /\ UNCHANGED <<games, players, moves, now, calls, started>>

NextConvert ==
    \/ \E position \in AlgebraicSquares : Convert(position)
    \/ \E index \in Squares : ConvertBack(index)

SpecConvert == InitConvert /\ [][NextConvert]_vars

\* C31: a converted square is the index (8 - rank) * 8 + file in 0..63, A8
\* is 0 and H1 is 63, and the conversion back returns the square; a
\* converted index is a square A1..H8 that no other index is converted to
\* and whose conversion returns the index.
C31_ConversionIsABijection ==
    /\ returned.result \in AlgebraicSquares =>
          /\ returned.exit \in Indices
          /\ returned.exit[1] = (8 - returned.result[2]) * 8
                                + CHOOSE f \in 0..7 : Letters[f + 1] = returned.result[1]
          /\ returned.result = <<"A", 8>> => returned.exit = <<0>>
          /\ returned.result = <<"H", 1>> => returned.exit = <<63>>
          /\ convertPositionBack(returned.exit[1]) = returned.result
    /\ returned.result \in Indices =>
          /\ returned.exit \in AlgebraicSquares
          /\ convertPosition(returned.exit) = returned.result[1]
          /\ \A other \in Squares \ {returned.result[1]} :
                convertPositionBack(other) # returned.exit

\* C31 witness: H1 has been converted to 63
C31_Witness == returned.result = <<"H", 1>> /\ returned.exit = <<63>>

\* ------------------------------------------------------ read operations
\* GET /game-status/:gameId (gameController.evaluateGameStatus) and
\* GET /moves/:gameId (MoveController.getMoveHistory with
\* moveService.exportMoveHistory, format json), one action per await.  A
\* read takes a call id while it runs; it is not counted in `started`.
Usernames == <<"player1", "player2", "player3">>

ReadCall(pc, g) == [pc |-> pc, gameId |-> g, rows |-> <<>>]

GetMoveHistory(c, g) ==
    /\ ~InFlight(c)
    /\ c = 2 => InFlight(1)
    /\ Goto(c, ReadCall("historyFindGame", g))
    /\ UNCHANGED <<games, players, moves, now, started>>

\* await Game.findByPk(gameId)
HistoryFindGame(c) ==
    /\ calls[c].pc = "historyFindGame"
    /\ IF calls[c].gameId \notin DOMAIN games
       THEN End(c, "GAME_NOT_FOUND", "gameNotFound")
       ELSE Goto(c, [calls[c] EXCEPT !.pc = "historyFindMoves"])
    /\ UNCHANGED <<games, players, moves, now, started>>

\* await Move.findAll({where: {game_id}, order: [['createdAt', 'ASC']]}):
\* the rows of the game in creation order
HistoryFindMoves(c) ==
    LET rows == SelectSeq(moves, LAMBDA m : m.game_id = calls[c].gameId) IN
    /\ calls[c].pc = "historyFindMoves"
    /\ IF Len(rows) = 0
       THEN End(c, "NO_MOVES", "noMoves")
       ELSE Goto(c, [calls[c] EXCEPT !.pc = "historyFindPlayers", !.rows = rows])
    /\ UNCHANGED <<games, players, moves, now, started>>

\* movesWithUsernames: the entry of one Move row
HistoryEntry(move) ==
    [moveNumber |-> move.move_number,
     fromPosition |-> move.from_position,
     toPosition |-> move.to_position,
     pieceType |-> move.piece_type,
     timestamp |-> move.createdAt,
     username |-> IF move.user_id = NULL THEN "Artificial Intelligence"
                  ELSE IF move.user_id \in DOMAIN players
                  THEN Usernames[move.user_id]
                  ELSE "Unknown Player"]

\* await Player.findAll(...), then the entries in the order of the rows
HistoryFindPlayers(c) ==
    /\ calls[c].pc = "historyFindPlayers"
    /\ End(c, [i \in 1..Len(calls[c].rows) |-> HistoryEntry(calls[c].rows[i])],
           "history")
    /\ UNCHANGED <<games, players, moves, now, started>>

EvaluateGameStatus(c, g) ==
    /\ ~InFlight(c)
    /\ c = 2 => InFlight(1)
    /\ Goto(c, ReadCall("statusFindGame", g))
    /\ UNCHANGED <<games, players, moves, now, started>>

\* a status read that also stores the game as abandoned
StatusFindGameStoring(c) ==
    /\ calls[c].pc = "statusFindGame"
    /\ calls[c].gameId \in DOMAIN games
    /\ End(c, [status |-> games[calls[c].gameId].status,
               game_id |-> calls[c].gameId,
               board |-> games[calls[c].gameId].board],
           "status")
    /\ games' = [games EXCEPT ![calls[c].gameId].status = "abandoned"]
    /\ UNCHANGED <<players, moves, now, started>>

\* await Game.findByPk(gameId), then the response
StatusFindGame(c) ==
    /\ calls[c].pc = "statusFindGame"
    /\ IF calls[c].gameId \notin DOMAIN games
       THEN End(c, "GAME_NOT_FOUND", "gameNotFound")
       ELSE End(c, [status |-> games[calls[c].gameId].status,
                    game_id |-> calls[c].gameId,
                    board |-> games[calls[c].gameId].board],
                "status")
    /\ UNCHANGED <<games, players, moves, now, started>>

\* One created game, PvP or PvE; players 1 and 2 each submit a legal move
\* for it within a minute, and anybody reads game 1 or the missing game 2.
InitReads ==
    /\ \E type \in {"pvp", "pve"} : games = [g \in GameIds |-> CreatedGame(type)]
    /\ players = [p \in PlayerIds |-> [tokens |-> InitTokens, score |-> 0]]
    /\ moves = <<>>
    /\ now = 0
    /\ calls = [c \in CallIds |-> IdleCall]
    /\ started = 0
    /\ returned = Return(0, "", "")

RequestsReads ==
    { r \in Requests :
        /\ r[1] = 1
        /\ r[3][1] = <<"B", 6>>
        /\ \/ r[2] = 1 /\ r[3][2] = <<"A", 5>>
           \/ r[2] = 2 /\ r[3][2] = <<"C", 5>> }

NextReads ==
    \/ \E c \in CallIds, r \in RequestsReads : Submit(c, r[1], r[3][1], r[3][2], r[2])
    \/ \E c \in CallIds : FindPlayer(c)
    \/ \E c \in CallIds : FindGame(c)
    \/ \E c \in CallIds : SavePlayer(c)
    \/ \E c \in CallIds : FindLast(c)
    \/ \E c \in CallIds : SaveGame(c)
    \/ \E c \in CallIds : CreateMove(c)
    \/ \E c \in CallIds : FindLastAI(c)
    \/ \E c \in CallIds : ChooseAI(c)
    \/ \E c \in CallIds : SaveGameAI(c)
    \/ \E c \in CallIds : SavePlayerAI(c)
    \/ \E c \in CallIds : CreateMoveAI(c)
    \/ \E c \in CallIds, g \in GameIdInputs : GetMoveHistory(c, g)
    \/ \E c \in CallIds : HistoryFindGame(c)
    \/ \E c \in CallIds : HistoryFindMoves(c)
    \/ \E c \in CallIds : HistoryFindPlayers(c)
    \/ \E c \in CallIds, g \in GameIdInputs : EvaluateGameStatus(c, g)
    \/ \E c \in CallIds : StatusFindGame(c)

SpecReads == InitReads /\ [][NextReads]_vars

\* C32: the history a call returns has one entry for each Move row of the
\* game, in creation order (timestamps do not go back); the move numbers
\* go strictly up along it; an entry of a row of the AI carries the AI's
\* label and every other entry the username of the row's player.
C32_HistoryInOrder ==
    [][\A c \in CallIds :
          /\ (calls[c].pc = "historyFindMoves" /\ calls'[c].pc = "historyFindPlayers")
             => calls'[c].rows = SelectSeq(moves, LAMBDA m : m.game_id = calls[c].gameId)
          /\ EndsWith(c, "history")
             => LET h == returned'.result
                    rows == calls[c].rows
                IN  /\ Len(h) = Len(rows)
                    /\ \A i \in 1..Len(h) :
                          /\ h[i].moveNumber = rows[i].move_number
                          /\ h[i].fromPosition = rows[i].from_position
                          /\ h[i].toPosition = rows[i].to_position
                          /\ h[i].username =
                                (IF rows[i].user_id = NULL THEN "Artificial Intelligence"
                                 ELSE Usernames[rows[i].user_id])
                    /\ \A i, j \in 1..Len(h) :
                          i < j => /\ h[i].timestamp <= h[j].timestamp
                                   /\ h[i].moveNumber < h[j].moveNumber]_vars

ReadPcs == {"historyFindGame", "historyFindMoves", "historyFindPlayers", "statusFindGame"}

RowsOf(ms, g) == { i \in 1..Len(ms) : ms[i].game_id = g }

\* the rows of game g in ms with the highest move_number
HighestRecords(ms, g) ==
    { i \in RowsOf(ms, g) : \A j \in RowsOf(ms, g) : ms[j].move_number <= ms[i].move_number }

\* the destination of the row's move holds no piece on the board
OmitsMove(board, row) ==
    convertPosition(row.to_position) \notin SquaresWith(board, {"d", "l", "D", "L"})

\* C34: when a call that committed a move returns, the board of the game's
\* row with the highest move_number is the persisted board, and the
\* persisted board omits no move that has a Move row (within these bounds
\* no committed move leaves the square an earlier one arrived on).
C34_BoardMatchesLastRecord ==
    [][\A c \in CallIds :
          (EndsWith(c, "moved") \/ EndsWith(c, "movedWithAI"))
          => LET g == calls[c].gameId IN
             /\ \A i \in HighestRecords(moves', g) : moves'[i].board = games'[g].board
             /\ \A i \in RowsOf(moves', g) : ~OmitsMove(games'[g].board, moves'[i])]_vars

\* the rows of game g that player p committed
OwnRecords(g, p) == { i \in RecordsOf(g) : moves[i].user_id = p }

\* C35: a call takes the timeout path exactly when its player has a Move
\* row in the game and the newest of them is older than the limit; a
\* player with no row in the game never does, whatever the age of the
\* game's other rows.
C35_TimeoutFromOwnLastMove ==
    [][\A c \in CallIds :
          (calls[c].pc = "findLastMove" /\ Steps(c))
          => LET own == OwnRecords(calls[c].gameId, calls[c].playerId) IN
             calls'[c].pc = "saveTimeout"
             <=> /\ own # {}
                 /\ \A i \in own : now - moves[i].createdAt > TIMEOUT_MINUTES]_vars

\* a player's first move is committed two minutes after the other
\* player's move
C35_Witness ==
    /\ returned.exit = "moved"
    /\ Len(moves) = 2
    /\ moves[1].user_id # moves[2].user_id
    /\ moves[1].createdAt = 0
    /\ moves[2].createdAt > TIMEOUT_MINUTES
    /\ games[1].status = "ongoing"

\* ------------------------------------------------------- stale sessions
\* A game in which moves were committed at minute 0: player 1's B6->A5
\* and, in a PvP game, possibly player 2's B6->C5 after it; in a PvE game
\* the AI's reply.  The board is the one the last call saved, and the
\* tokens are debited.  Calls arrive while up to two minutes pass.
FirstMove == FindMove(SetupMoves, convertPosition(<<"B", 6>>), convertPosition(<<"A", 5>>))

SecondMove == FindMove(SetupMoves, convertPosition(<<"B", 6>>), convertPosition(<<"C", 5>>))

InitTimeout ==
    \E type \in {"pvp", "pve"} :
    \E both \in BOOLEAN :
        LET first == EngineMove(Setup, FirstMove)
            reply == EngineMove(first, EngineMoves(first)[1])
            second == EngineMove(Setup, SecondMove)
            last == IF type = "pve" THEN reply ELSE IF both THEN second ELSE first
            n == IF type = "pve" \/ both THEN 2 ELSE 1
        IN
        /\ type = "pve" => ~both
        /\ games = [g \in GameIds |->
                      [CreatedGame(type) EXCEPT !.board = last.board, !.total_moves = n]]
        /\ players = [p \in PlayerIds |->
                        [tokens |-> IF p = 1 /\ type = "pve" THEN InitTokens - 2 * MOVE_COST
                                    ELSE IF p = 1 \/ (p = 2 /\ both) THEN InitTokens - MOVE_COST
                                    ELSE InitTokens,
                         score |-> 0]]
        /\ moves = <<[PlayerRecord([playerId |-> 1]) EXCEPT !.board = first.board]>>
                   \o (IF type = "pve"
                       THEN <<[AIRecord(first) EXCEPT !.board = reply.board]>>
                       ELSE IF both
                       THEN <<[PlayerRecord([playerId |-> 2]) EXCEPT
                                  !.move_number = 2, !.board = second.board,
                                  !.to_position = <<"C", 5>>]>>
                       ELSE <<>>)
        /\ now = 0
        /\ calls = [c \in CallIds |-> IdleCall]
        /\ started = 0
        /\ returned = Return(0, "", "")

\* the requests: either move of the man on B6, by player 1 or player 2
RequestsTimeout ==
    { r \in Requests : r[1] = 1 /\ r[2] \in {1, 2} /\ r[3][1] = <<"B", 6>> }

NextTimeout ==
    \/ \E c \in CallIds, r \in RequestsTimeout : Submit(c, r[1], r[3][1], r[3][2], r[2])
    \/ \E c \in CallIds : FindPlayer(c)
    \/ \E c \in CallIds : FindGame(c)
    \/ \E c \in CallIds : SavePlayer(c)
    \/ \E c \in CallIds : FindLast(c)
    \/ \E c \in CallIds : SaveTimeout(c)
    \/ \E c \in CallIds : FindPenalty(c)
    \/ \E c \in CallIds : SavePenalty(c)
    \/ \E c \in CallIds : SaveGame(c)
    \/ \E c \in CallIds : CreateMove(c)
    \/ \E c \in CallIds : FindLastAI(c)
    \/ \E c \in CallIds : ChooseAI(c)
    \/ \E c \in CallIds : SaveGameAI(c)
    \/ \E c \in CallIds : SavePlayerAI(c)
    \/ \E c \in CallIds : CreateMoveAI(c)
    \/ Tick

SpecTimeout == InitTimeout /\ [][NextTimeout]_vars

\* C36: when a call returns the timeout result, its player's score is one
\* penalty below the score the session started with and every other
\* player's score is the one it started with: one penalty in the session,
\* for the caller, and no point for the winner.
C36_OnePenaltyPerTimeout ==
    [][\A c \in CallIds :
          EndsWith(c, "timeout")
          => /\ players'[calls[c].playerId].score = 0 - TIMEOUT_PENALTY
             /\ \A q \in PlayerIds \ {calls[c].playerId} : players'[q].score = 0]_vars

\* C37: a step that appends a Move row of the AI is taken in a PvE game by
\* a call whose own player's row is the newest row before it; a row of a
\* player is a row of a participant of its game (so a PvP game never gets
\* a row of the AI).
C37_AIRecordsFollowTheirCall ==
    [][Len(moves') > Len(moves)
       => LET r == moves'[Len(moves')] IN
          /\ r.user_id = NULL
             => /\ games[r.game_id].type = "pve"
                /\ moves # <<>>
                /\ \E c \in CallIds :
                      LET prev == moves[Len(moves)] IN
                      /\ calls[c].pc = "createMoveAI"
                      /\ calls'[c] # calls[c]
                      /\ prev.game_id = r.game_id
                      /\ prev.user_id = calls[c].playerId
                      /\ prev.move_number = calls[c].moveNumber
                      /\ prev.from_position = calls[c].from
                      /\ prev.to_position = calls[c].to
          /\ r.user_id # NULL => r.user_id \in Participants(r.game_id)]_vars

\* call c of createGame is refused in this step with the given error
RefusedWith(c, error) ==
    /\ EndsWith(c, "createRefused")
    /\ returned'.result = error

====
